---------------------------- MODULE Spec2Model ----------------------------
(***************************************************************************)
(* A model of wptools' fetch / cache / validate / normalize core           *)
(* (wptools/core.py: WPTools) and of its RESTBase source                   *)
(* (wptools/restbase.py: WPToolsRESTBase).                                 *)
(*                                                                         *)
(* Text is modelled as a sequence of characters, so that split('/'),       *)
(* '/'.join and replace(' ', '_') are computed and not assumed.  An        *)
(* optional value (None or a value v) is the sequence <<>> or <<v>>.       *)
(***************************************************************************)
EXTENDS Integers, Sequences, FiniteSets, TLC

VARIABLES
    pc,        \* "new" before construction, "ready" once __init__ returned, "dead" when it raised
    cache,     \* WPTools.cache  : action -> {query, response, info} (entries may be partial)
    data,      \* WPTools.data   : field name -> value
    params,    \* WPTools.params : lang, variant, wiki, then title and endpoint
    flags,     \* WPTools.flags  : silent, skip, verbose
    netCalls,  \* number of req.get invocations so far (the Transport Adapter)
    nops,      \* number of operations called on the instance so far
    failed,    \* the actions whose _get has raised so far
    last       \* what the most recent operation did (its observable outcome)

vars == <<pc, cache, data, params, flags, netCalls, nops, failed, last>>

(***************************************************************************)
(* Bounds of the model.                                                    *)
(***************************************************************************)
MaxOps == 2    \* operations called on one instance after its construction

(***************************************************************************)
(* Text.                                                                   *)
(***************************************************************************)
None == "<None>"

Str_page    == <<"p", "a", "g", "e">>
Str_summary == <<"s", "u", "m", "m", "a", "r", "y">>
Str_html    == <<"h", "t", "m", "l">>
Str_X       == <<"X">>
Str_Y       == <<"Y">>
Sl          == <<"/">>

\* str.split('/')
RECURSIVE split(_)
split(s) ==
    IF s = <<>> THEN << <<>> >>
    ELSE LET rest == split(Tail(s))
         IN  IF Head(s) = "/"
             THEN << <<>> >> \o rest
             ELSE << <<Head(s)>> \o Head(rest) >> \o Tail(rest)

\* '/'.join(parts)
RECURSIVE join(_)
join(parts) ==
    IF parts = <<>> THEN <<>>
    ELSE IF Len(parts) = 1 THEN parts[1]
    ELSE parts[1] \o Sl \o join(Tail(parts))

\* str.replace(' ', '_')
replace_space(s) == [i \in 1..Len(s) |-> IF s[i] = " " THEN "_" ELSE s[i]]

\* truth value of an optional text: None and '' are false
Truthy(opt) == opt # <<>> /\ opt[1] # <<>>

\* dict.get(key) on params, for the title
params_get_title(p) == IF "title" \in DOMAIN p THEN <<p.title>> ELSE <<>>

\* dict.get(key) on params, for the endpoint
params_get_endpoint(p) == IF "endpoint" \in DOMAIN p THEN <<p.endpoint>> ELSE <<>>

\* d[key] = value on a dict modelled as a function
Put(d, k, v) == [x \in DOMAIN d \cup {k} |-> IF x = k THEN v ELSE d[x]]

\* del d[key]
Del(d, k) == [x \in DOMAIN d \ {k} |-> d[x]]

(***************************************************************************)
(* WPToolsRESTBase._parse_endpoint(endpoint, title).  The result carries   *)
(* the exception raised ("none" when it returns), the returned path and    *)
(* params as the call leaves it (the title may be adopted).                *)
(***************************************************************************)
RootPath == Sl \o Str_page \o Sl

\* parts = [x for x in endpoint.split('/') if x]
parse_segments(endpoint) == SelectSeq(split(endpoint[1]), LAMBDA x : x # <<>>)

\* mutant: 'page' is prepended whatever the first segment is
parse_rooted_always(parts) == <<Str_page>> \o parts

\* if not parts[0] == 'page': parts.insert(0, 'page')
parse_rooted(parts) == IF parts[1] # Str_page THEN <<Str_page>> \o parts ELSE parts

\* if len(parts) == 2 and title: parts.append(title)
parse_with_title(parts, title) ==
    IF Len(parts) = 2 THEN Append(parts, title[1]) ELSE parts

\* mutant: the title is never compared with the third segment
parse_title_conflict_never(parts, title) == FALSE

\* if title != parts[2]: raise ValueError("titles conflict.")
parse_title_conflict(parts, title) == title[1] # parts[3]

\* mutant: the third segment replaces a title that differs from it
parse_three_overwrites(parts, title, p) ==
    [err    |-> "none",
     path   |-> Sl \o join(parts),
     params |-> IF Len(parts) = 3 THEN Put(p, "title", parts[3]) ELSE p]

\* mutant: the third segment is never adopted as the title
parse_three_keeps(parts, title, p) ==
    IF Len(parts) = 3 /\ Truthy(title) /\ parse_title_conflict(parts, title)
    THEN [err |-> "titles conflict.", path |-> <<>>, params |-> p]
    ELSE [err |-> "none", path |-> Sl \o join(parts), params |-> p]

\* if len(parts) == 3: check the title, or adopt parts[-1] as the title
parse_three(parts, title, p) ==
    IF Len(parts) = 3 /\ Truthy(title) /\ parse_title_conflict(parts, title)
    THEN [err |-> "titles conflict.", path |-> <<>>, params |-> p]
    ELSE [err    |-> "none",
          path   |-> Sl \o join(parts),
          params |-> IF Len(parts) = 3 /\ ~Truthy(title)
                     THEN Put(p, "title", parts[Len(parts)])
                     ELSE p]

\* mutant: two segments without a title are joined as they are
parse_two_untitled(parts, title, p) ==
    IF Len(parts) = 2 /\ ~Truthy(title)
    THEN parse_three(parts, title, p)
    ELSE parse_three(parse_with_title(parts, title), title, p)

\* if len(parts) == 2: append the title or raise ValueError("need a title.")
parse_two(parts, title, p) ==
    IF Len(parts) = 2 /\ ~Truthy(title)
    THEN [err |-> "need a title.", path |-> <<>>, params |-> p]
    ELSE parse_three(parse_with_title(parts, title), title, p)

parse_split(parts, title, p) ==
    IF parts = <<>>
    THEN [err |-> "IndexError", path |-> <<>>, params |-> p]
    ELSE parse_two(parse_rooted(parts), title, p)

_parse_endpoint(endpoint, title, p) ==
    IF ~Truthy(endpoint)
    THEN [err |-> "none", path |-> RootPath, params |-> p]
    ELSE parse_split(parse_segments(endpoint), title, p)

(***************************************************************************)
(* The external collaborators: the Query Builder (wptools.query), the      *)
(* Transport Adapter (wptools.request) and wptools.utils.                  *)
(***************************************************************************)
\* WPToolsQuery.restbase(endpoint): the RESTBase URL of the endpoint
restbase(lang, endpoint) ==
    [scheme |-> "https", netloc |-> <<lang, "wikipedia.org">>,
     path |-> endpoint, suffix |-> ""]

\* query.replace('&format=json', '')
strip_format(q) == [q EXCEPT !.suffix = ""]

\* urlparse(query): scheme and netloc
urlparse(q) == [scheme |-> q.scheme, netloc |-> q.netloc]

\* utils.wikidata_url(wikibase)
wikidata_url(wikibase) == [host |-> "www.wikidata.org", item |-> wikibase]

\* The bodies the transport may return: text, or bytes.
Text(t)  == [bytes |-> FALSE, text |-> t]
Bytes(t) == [bytes |-> TRUE, text |-> t]

\* req.info after a request: the status and the content-type
ContentJson  == "application/json; charset=utf-8"
ContentHtml  == "text/html; charset=utf-8"
ContentTypes == {ContentJson, ContentHtml}
Statuses     == {200, 404}
Infos        == [status : Statuses, content : ContentTypes]

\* content.startswith('text/html')
startswith_text_html(content) == content \in {"text/html", "text/html; charset=utf-8"}

\* html.decode('utf-8') when the body is bytes
decode(body) == IF body.bytes THEN [body EXCEPT !.bytes = FALSE] ELSE body

\* utils.json_loads(response): the parsed structure, or ValueError
json_loads(body) ==
    CASE body.text = "{error}" ->
           [ok |-> TRUE, val |-> [error |-> "badrequest"]]
      [] body.text = "{items}" ->
           [ok |-> TRUE, val |-> [items |-> <<"html", "summary">>]]
      [] body.text = "{summary}" ->
           [ok |-> TRUE,
            val |-> [title |-> <<"A", " ", "B">>,
                     description |-> "English writer",
                     extract |-> "extract",
                     extract_html |-> "<p>extract</p>",
                     lastmodified |-> "2017-01-01T00:00:00Z",
                     pageid |-> "8091",
                     originalimage |-> [source |-> "orig.jpg", width |-> "640"],
                     thumbnail |-> [source |-> "thumb.jpg", width |-> "240"],
                     wikibase_item |-> "Q42"]]
      [] body.text = "{lead}" ->
           [ok |-> TRUE,
            val |-> [id |-> "8091",
                     normalizedtitle |-> <<"A", " ", "B">>,
                     lastmodified |-> "2017-02-02T00:00:00Z",
                     sections |-> << [id |-> "0", text |-> "<p>lead</p>"] >>,
                     image |-> [file |-> "lead.jpg"]]]
      [] OTHER -> [ok |-> FALSE, val |-> <<>>]

\* dict.get(key) for a text-valued key: the value or None
get(d, k) == IF k \in DOMAIN d THEN d[k] ELSE None

\* truth value of a text value
truthy(v) == v \notin {None, ""}

\* truth value of dict.get(key) when the value is a dict or a list
truthy_at(d, k) == k \in DOMAIN d /\ DOMAIN d[k] # {}

\* utils.stderr(msg, silent=False): what reaches the diagnostic stream
stderr(msg, silent) == IF silent THEN {} ELSE {msg}

\* dict.update(other)
update(d, e) ==
    [x \in DOMAIN d \cup DOMAIN e |-> IF x \in DOMAIN e THEN e[x] ELSE d[x]]

(***************************************************************************)
(* WPTools._load_response(action): the parsed response of the cache, or    *)
(* the exception it raises with its argument.                              *)
(***************************************************************************)
Failure(err, arg) == [err |-> err, arg |-> arg, val |-> <<>>]

\* the checks on the parsed data
load_checked(val, action, _query) ==
    IF truthy(get(val, "error"))
    THEN Failure("LookupError", <<_query>>)
    ELSE IF action = "parse" /\ ~truthy(get(val, "parse"))
    THEN Failure("LookupError", <<_query>>)
    ELSE IF action = "wikidata" /\ "entities" \notin DOMAIN val
    THEN Failure("TypeError", <<>>)
    ELSE IF action = "wikidata" /\ "-1" \in DOMAIN val.entities
    THEN Failure("LookupError", <<_query>>)
    ELSE [err |-> "none", arg |-> <<>>, val |-> val]

\* mutant: a body that does not parse is taken for an empty structure
load_parsed_lenient(parsed, action, _query) ==
    IF ~parsed.ok
    THEN [err |-> "none", arg |-> <<>>, val |-> <<>>]
    ELSE load_checked(parsed.val, action, _query)

\* try: data = utils.json_loads(response); except ValueError: raise ValueError(_query)
load_parsed(parsed, action, _query) ==
    IF ~parsed.ok
    THEN Failure("ValueError", <<_query>>)
    ELSE load_checked(parsed.val, action, _query)

\* if not response: raise StandardError("Empty response: %s" % self.params)
load_body(response, p, action, _query) ==
    IF response.text = ""
    THEN Failure("StandardError", <<p>>)
    ELSE load_parsed(json_loads(response), action, _query)

_load_response(c, p, action) ==
    IF action \notin DOMAIN c \/ "query" \notin DOMAIN c[action]
                              \/ "response" \notin DOMAIN c[action]
    THEN Failure("KeyError", <<>>)
    ELSE load_body(c[action].response, p, action, strip_format(c[action].query))

(***************************************************************************)
(* WPToolsRESTBase._handle_response(): res is <<response>> when a response *)
(* is returned and <<>> when None is returned or an exception is raised.   *)
(***************************************************************************)
Handled(err, arg, res, c, d, notes) ==
    [err |-> err, arg |-> arg, res |-> res, cache |-> c, data |-> d, notes |-> notes]

\* mutant: the content-type is not looked at
handle_is_html_never(info) == FALSE

\* if content.startswith('text/html')
handle_is_html(info) == startswith_text_html(info.content)

\* mutant: the status is not looked at
handle_is_404_ignored(info) == FALSE

\* if http_status == 404
handle_is_404(info) == info.status = 404

\* if self.params.get('endpoint') == '/page/'
handle_is_root(p) == params_get_endpoint(p) = <<RootPath>>

\* utils.stderr(msg) with the entry points of the root listing
handle_root_note == stderr("root", FALSE)

\* mutant: the root listing keeps its cache entry
handle_root_keeps(c) == c

\* mutant: the root listing clears the whole cache
handle_root_clear(c) == <<>>

\* the root listing: utils.stderr(msg); del self.cache['restbase']
handle_root(c) == Del(c, "restbase")

\* after response = self._load_response('restbase')
handle_loaded(loaded, c, d, p) ==
    IF loaded.err # "none"
    THEN Handled(loaded.err, loaded.arg, <<>>, c, d, {})
    ELSE IF handle_is_404(c["restbase"].info)
    THEN Handled("LookupError", <<c["restbase"].query>>, <<>>, c, d, {})
    ELSE IF handle_is_root(p)
    THEN Handled("none", <<>>, <<>>, handle_root(c), d, handle_root_note)
    ELSE Handled("none", <<>>, <<loaded.val>>, c, d, {})

\* self.data['html'] = html
handle_html(c, d) == Put(d, "html", decode(c["restbase"].response))

_handle_response(c, d, p) ==
    IF "restbase" \notin DOMAIN c \/ "info" \notin DOMAIN c["restbase"]
    THEN Handled("KeyError", <<>>, <<>>, c, d, {})
    ELSE IF handle_is_html(c["restbase"].info)
    THEN Handled("none", <<>>, <<>>, c, handle_html(c, d), {})
    ELSE handle_loaded(_load_response(c, p, "restbase"), c, d, p)

(***************************************************************************)
(* WPToolsRESTBase._unpack_images(rdata): data after the call.             *)
(***************************************************************************)
\* img = {'kind': kind}; img.update(shape)
image_tagged(kind, shape) == update([kind |-> kind], shape)

\* if shape.get('source'): img.update({'url': shape.get('source')})
image_with_url(img, shape) ==
    IF truthy(get(shape, "source")) THEN update(img, [url |-> shape.source]) ELSE img

\* mutant: a record equal to one already in the list is not appended again
image_append_unique(d, img) ==
    IF \E i \in DOMAIN d.image : d.image[i] = img
    THEN d
    ELSE Put(d, "image", Append(d.image, img))

\* self.data['image'].append(img)
image_append(d, img) == Put(d, "image", Append(d.image, img))

\* if image or originalimage or thumbnail: if 'image' not in self.data: ...
unpack_list(d, rdata) ==
    IF (truthy_at(rdata, "image") \/ truthy_at(rdata, "originalimage")
            \/ truthy_at(rdata, "thumbnail")) /\ "image" \notin DOMAIN d
    THEN Put(d, "image", <<>>)
    ELSE d

unpack_image(d, rdata) ==
    IF truthy_at(rdata, "image")
    THEN image_append(d, image_tagged("restbase-image", rdata.image))
    ELSE d

unpack_originalimage(d, rdata) ==
    IF truthy_at(rdata, "originalimage")
    THEN image_append(d, image_with_url(image_tagged("restbase-original",
                                                     rdata.originalimage),
                                        rdata.originalimage))
    ELSE d

\* mutant: the thumbnail is tagged as the original image is
unpack_thumbnail_mistagged(d, rdata) ==
    IF truthy_at(rdata, "thumbnail")
    THEN image_append(d, image_with_url(image_tagged("restbase-original",
                                                     rdata.thumbnail),
                                        rdata.thumbnail))
    ELSE d

unpack_thumbnail(d, rdata) ==
    IF truthy_at(rdata, "thumbnail")
    THEN image_append(d, image_with_url(image_tagged("restbase-thumb", rdata.thumbnail),
                                        rdata.thumbnail))
    ELSE d

_unpack_images(d, rdata) ==
    unpack_thumbnail(
        unpack_originalimage(unpack_image(unpack_list(d, rdata), rdata), rdata),
        rdata)

(***************************************************************************)
(* WPToolsRESTBase._set_restbase_data(), which is _set_data(action) for    *)
(* every action: cache and data after the call, and the exception raised.  *)
(***************************************************************************)
set_description(d, res) == Put(d, "description", get(res, "description"))

set_pageid(d, res) ==
    Put(d, "pageid", IF truthy(get(res, "id")) THEN get(res, "id") ELSE get(res, "pageid"))

set_exrest(d, res) == Put(d, "exrest", get(res, "extract"))

set_exhtml(d, res) == Put(d, "exhtml", get(res, "extract_html"))

\* mutant: the map of modified dates is replaced, not updated
set_modified_replaces(d, res) ==
    IF truthy(get(res, "lastmodified"))
    THEN Put(d, "modified", [page |-> res.lastmodified])
    ELSE d

set_modified(d, res) ==
    IF truthy(get(res, "lastmodified"))
    THEN IF "modified" \in DOMAIN d
         THEN Put(d, "modified", update(d.modified, [page |-> res.lastmodified]))
         ELSE Put(d, "modified", [page |-> res.lastmodified])
    ELSE d

set_lead(d, res) ==
    IF "sections" \in DOMAIN res /\ res.sections # <<>>
    THEN Put(d, "lead", get(res.sections[1], "text"))
    ELSE d

\* title = res.get('title') or res.get('normalizedtitle')
res_title(res) ==
    IF "title" \in DOMAIN res /\ res.title # <<>> THEN <<res.title>>
    ELSE IF "normalizedtitle" \in DOMAIN res THEN <<res.normalizedtitle>>
    ELSE <<>>

set_title(d, title) ==
    IF Truthy(title) THEN Put(d, "title", replace_space(title[1])) ELSE d

set_wikibase(d, wikibase) ==
    IF truthy(wikibase)
    THEN Put(Put(d, "wikibase", wikibase), "wikidata_url", wikidata_url(wikibase))
    ELSE d

\* mutant: the whole response is merged into data
set_fields_all(d, res) == update(d, res)

\* lines 118-142: the fields extracted before the URL is derived
set_fields(d, res) ==
    set_wikibase(
        set_title(
            set_lead(
                set_modified(
                    set_exhtml(set_exrest(set_pageid(set_description(d, res), res), res),
                               res),
                    res),
                res),
            res_title(res)),
        get(res, "wikibase_item"))

\* durl = "%s://%s/wiki/%s" % (url.scheme, url.netloc, self.params['title'])
set_durl(url, title) ==
    [scheme |-> url.scheme, netloc |-> url.netloc, title |-> title, raw |-> FALSE]

set_url(d, durl) == Put(Put(d, "url", durl), "url_raw", [durl EXCEPT !.raw = TRUE])

Normalized(err, arg, c, d, notes) ==
    [err |-> err, arg |-> arg, cache |-> c, data |-> d, notes |-> notes]

\* lines 144-151, with data as lines 118-142 left it
set_urls(c, d, p, res, notes) ==
    IF "title" \notin DOMAIN p
    THEN Normalized("KeyError", <<>>, c, d, notes)
    ELSE Normalized("none", <<>>, c,
                    _unpack_images(set_url(d, set_durl(urlparse(c["restbase"].query),
                                                       p.title)),
                                   res),
                    notes)

\* after res = self._handle_response()
set_handled(h, p) ==
    IF h.res = <<>>
    THEN Normalized(h.err, h.arg, h.cache, h.data, h.notes)
    ELSE set_urls(h.cache, set_fields(h.data, h.res[1]), p, h.res[1], h.notes)

_set_restbase_data(c, d, p) == set_handled(_handle_response(c, d, p), p)

(***************************************************************************)
(* WPTools.show(force): whether the dump is printed to stderr.             *)
(***************************************************************************)
show_prints(f, d, force) ==
    IF f.silent /\ ~force THEN FALSE
    ELSE IF DOMAIN d = {} THEN FALSE
    ELSE TRUE

(***************************************************************************)
(* WPTools._get(action, show, proxy, timeout).  out is what the Transport  *)
(* Adapter does if it is invoked: it raises, or returns a body and leaves  *)
(* req.info.  The result names how the call ended: "cached", "skipped",    *)
(* "ok", or the exception that propagates to the caller.                   *)
(***************************************************************************)
Actions == {"restbase", "imageinfo", "parse"}

TransportRaises ==
    [raises |-> TRUE, body |-> Text(""), info |-> [status |-> 200, content |-> ContentJson]]

Returns(bodies, infos) == [raises : {FALSE}, body : bodies, info : infos]

\* What the Transport Adapter may do when invoked: raise; answer 200 with a JSON
\* content-type and an empty, truncated, error, listing or page body; answer a
\* truncated body with every status and content-type; answer 404; answer HTML.
Outcomes ==
    {TransportRaises}
    \cup Returns({Text(""), Text("{error}"), Text("{items}"), Text("{summary}")},
                 {[status |-> 200, content |-> ContentJson]})
    \cup Returns({Text("{trunc")}, Infos)
    \cup Returns({Text("{summary}")}, {[status |-> 404, content |-> ContentJson]})
    \cup Returns({Bytes("<html>")}, {[status |-> 200, content |-> ContentHtml]})

Got(c, d, result, arg, net, norm, dump, notes) ==
    [cache |-> c, data |-> d, result |-> result, arg |-> arg,
     net |-> net, norm |-> norm, dump |-> dump, notes |-> notes]

\* how a call ends without an exception
Returned == {"ok", "cached", "skipped"}

\* mutant: an entry without a response does not count as cached
get_cache_hit_answered(c, action) ==
    action \in DOMAIN c /\ action # "imageinfo" /\ "response" \in DOMAIN c[action]

\* mutant: the test on 'imageinfo' is inverted
get_cache_hit_inverted(c, action) == action \in DOMAIN c /\ action = "imageinfo"

\* mutant: 'imageinfo' is served from the cache like every other action
get_cache_hit_any(c, action) == action \in DOMAIN c

\* if action in self.cache: if action != 'imageinfo': ... return
get_cache_hit(c, action) == action \in DOMAIN c /\ action # "imageinfo"

\* else: self.cache[action] = {}
get_entry(c, action) == IF action \in DOMAIN c THEN c ELSE Put(c, action, <<>>)

\* mutant: the skip-list is not consulted for 'imageinfo'
get_skipped_but_imageinfo(f, action) == action \in f.skip /\ action # "imageinfo"

\* if action in self.flags['skip']
get_skipped(f, action) == action \in f.skip

\* utils.stderr("+ %s results in cache" % action, silent)
get_hit_note(f) == stderr("cache", f.silent)

\* utils.stderr("+ skipping %s" % action)
get_skip_note(f) == stderr("skip", FALSE)

\* self.cache[action]['query'] = qstr
get_store_query(c, action, qstr) == Put(c, action, Put(c[action], "query", qstr))

\* mutant: the response is stored without the transport info
get_store_response_only(c, action, out) ==
    Put(c, action, Put(c[action], "response", out.body))

\* self.cache[action]['response'] = response; self.cache[action]['info'] = req.info
get_store_response(c, action, out) ==
    Put(c, action, Put(Put(c[action], "response", out.body), "info", out.info))

\* if show: self.show()
get_show(n, f, show) ==
    IF show /\ show_prints(f, n.data, FALSE) THEN n.notes \cup {"dump"} ELSE n.notes

\* mutant: the dump is produced whether or not the normalizer raised
get_normalized_dumps(n, f, show) ==
    Got(n.cache, n.data, IF n.err # "none" THEN n.err ELSE "ok", n.arg, 1, TRUE, show,
        get_show(n, f, show))

\* after self._set_data(action)
get_normalized(n, f, show) ==
    IF n.err # "none"
    THEN Got(n.cache, n.data, n.err, n.arg, 1, TRUE, FALSE, n.notes)
    ELSE Got(n.cache, n.data, "ok", <<>>, 1, TRUE, show, get_show(n, f, show))

\* mutant: a transport error removes the entry, so that the fetch can be retried
get_request_forgets(c, d, p, f, action, show, out) ==
    IF out.raises
    THEN Got(Del(c, action), d, "TransportError", <<>>, 1, FALSE, FALSE, {})
    ELSE get_normalized(_set_restbase_data(get_store_response(c, action, out), d, p),
                        f, show)

\* mutant: a transport error is swallowed and the cached data is normalized
get_request_swallows(c, d, p, f, action, show, out) ==
    IF out.raises
    THEN get_normalized(_set_restbase_data(c, d, p), f, show)
    ELSE get_normalized(_set_restbase_data(get_store_response(c, action, out), d, p),
                        f, show)

\* response = req.get(qstr, qobj.status), with the query stored
get_request(c, d, p, f, action, show, out) ==
    IF out.raises
    THEN Got(c, d, "TransportError", <<>>, 1, FALSE, FALSE, {})
    ELSE get_normalized(_set_restbase_data(get_store_response(c, action, out), d, p),
                        f, show)

\* with the cache entry present
get_fetch(c, d, p, f, action, show, out) ==
    IF get_skipped(f, action)
    THEN Got(c, d, "skipped", <<>>, 0, FALSE, FALSE, get_skip_note(f))
    ELSE get_request(get_store_query(c, action, restbase(p.lang, p.endpoint)),
                     d, p, f, action, show, out)

\* mutant: a cache hit still produces the dump when show is requested
_get_hit_shows(c, d, p, f, action, show, out) ==
    IF get_cache_hit(c, action)
    THEN Got(c, d, "cached", <<>>, 0, FALSE, show,
             IF show /\ show_prints(f, d, FALSE) THEN get_hit_note(f) \cup {"dump"}
                                                 ELSE get_hit_note(f))
    ELSE get_fetch(get_entry(c, action), d, p, f, action, show, out)

_get(c, d, p, f, action, show, out) ==
    IF get_cache_hit(c, action)
    THEN Got(c, d, "cached", <<>>, 0, FALSE, FALSE, get_hit_note(f))
    ELSE get_fetch(get_entry(c, action), d, p, f, action, show, out)

\* whether _get reaches req.get: the transport's behaviour is drawn only then
reaches_transport(c, f, action) ==
    ~(action \in DOMAIN c /\ action # "imageinfo") /\ action \notin f.skip

outcomes_of(c, f, action) ==
    IF reaches_transport(c, f, action) THEN Outcomes ELSE {TransportRaises}

(***************************************************************************)
(* The read accessors WPTools.info, query and response: the value they     *)
(* return, or the exception they raise.                                    *)
(***************************************************************************)
Accessed(err, val) == [err |-> err, val |-> val]

\* return self.cache.keys() or None
cache_keys(c) == Accessed("none", DOMAIN c)

\* return self.cache[action]['info']
info(c, action) ==
    IF action \notin DOMAIN c THEN cache_keys(c)
    ELSE IF "info" \notin DOMAIN c[action] THEN Accessed("KeyError", <<>>)
    ELSE Accessed("none", c[action].info)

\* return self.cache[action]['query'].replace('&format=json', '')
query(c, action) ==
    IF action \notin DOMAIN c THEN cache_keys(c)
    ELSE IF "query" \notin DOMAIN c[action] THEN Accessed("KeyError", <<>>)
    ELSE Accessed("none", strip_format(c[action].query))

\* return utils.json_loads(self.cache[action]['response'])
response(c, action) ==
    IF action \notin DOMAIN c THEN cache_keys(c)
    ELSE IF "response" \notin DOMAIN c[action] THEN Accessed("KeyError", <<>>)
    ELSE IF ~json_loads(c[action].response).ok THEN Accessed("ValueError", <<>>)
    ELSE Accessed("none", json_loads(c[action].response).val)

(***************************************************************************)
(* The state machine: one instance, from its construction on.              *)
(***************************************************************************)
\* endpoints a caller may supply: None and paths
EndpointArgs ==
    { <<>>,
      << Str_summary >>,
      << Sl \o Str_page \o Sl >>,
      << Str_page \o Sl \o Str_summary \o Sl \o Str_X >>,
      << Sl \o Str_page \o Sl \o Str_html \o Sl \o Str_Y >> }

SkipLists == { {}, {"restbase"}, {"imageinfo", "parse"} }

\* what a call of _get did: out is <<out>> when the transport was invoked
Observed(op, action, endpoint, show, out, g) ==
    [op |-> op, action |-> action, endpoint |-> endpoint, show |-> show,
     out |-> IF g.net > 0 THEN <<out>> ELSE <<>>,
     result |-> g.result, arg |-> g.arg, net |-> g.net, norm |-> g.norm,
     dump |-> g.dump, notes |-> g.notes, ret |-> <<>>]

\* what a call that did not reach _get did: ret is <<path>> when a path was resolved
Raised(op, endpoint, show, err, ret) ==
    [op |-> op, action |-> "none", endpoint |-> endpoint, show |-> show,
     out |-> <<>>,
     result |-> err, arg |-> <<>>, net |-> 0, norm |-> FALSE, dump |-> FALSE,
     notes |-> {}, ret |-> ret]

\* WPTools.__init__(**kwargs) has run: the state WPToolsRESTBase.__init__ starts from
Init ==
    /\ pc = "new"
    /\ cache = <<>>
    /\ data = <<>>
    /\ params = [lang |-> "en", variant |-> None, wiki |-> None]
    /\ flags \in [silent : BOOLEAN, skip : SkipLists, verbose : {FALSE}]
    /\ netCalls = 0
    /\ nops = 0
    /\ failed = {}
    /\ last = Raised("none", <<>>, FALSE, "none", <<>>)

\* self.params.update({'endpoint': endpoint}), or the exception propagates
Constructed(r, endpoint) ==
    IF r.err # "none"
    THEN /\ pc' = "dead"
         /\ params' = params
         /\ last' = Raised("__init__", endpoint, FALSE, r.err, <<>>)
    ELSE /\ pc' = "ready"
         /\ params' = Put(r.params, "endpoint", r.path)
         /\ last' = Raised("__init__", endpoint, FALSE, "ok", <<r.path>>)

\* WPToolsRESTBase.__init__: resolve the endpoint keyword and store it
Construct(endpoint) ==
    /\ pc = "new"
    /\ Constructed(_parse_endpoint(endpoint, params_get_title(params), params), endpoint)
    /\ UNCHANGED <<cache, data, flags, netCalls, nops, failed>>

\* the state a call of _get leaves
Fetched(g, op, action, endpoint, show, out) ==
    /\ cache' = g.cache
    /\ data' = g.data
    /\ netCalls' = netCalls + g.net
    /\ failed' = IF g.result \in Returned THEN failed ELSE failed \cup {action}
    /\ last' = Observed(op, action, endpoint, show, out, g)

\* if endpoint: endpoint = self._parse_endpoint(...); self.params.update(...)
restbase_resolve(endpoint, p) ==
    IF Truthy(endpoint)
    THEN _parse_endpoint(endpoint, params_get_title(p), p)
    ELSE [err |-> "none", path |-> p.endpoint, params |-> p]

\* mutant: a new endpoint discards the 'restbase' entry before the fetch
restbase_get_fresh(p1, endpoint, show) ==
    /\ params' = p1
    /\ \E out \in outcomes_of(cache, flags, "restbase") :
          Fetched(_get(IF p1.endpoint # params.endpoint THEN Del(cache, "restbase")
                                                        ELSE cache,
                       data, p1, flags, "restbase", show, out),
                  "get_restbase", "restbase", endpoint, show, out)

\* self._get('restbase', show, proxy, timeout) with the endpoint resolved
restbase_get(p1, endpoint, show) ==
    /\ params' = p1
    /\ \E out \in outcomes_of(cache, flags, "restbase") :
          Fetched(_get(cache, data, p1, flags, "restbase", show, out),
                  "get_restbase", "restbase", endpoint, show, out)

restbase_resolved(r, endpoint, show) ==
    IF r.err # "none"
    THEN /\ last' = Raised("get_restbase", endpoint, show, r.err, <<>>)
         /\ UNCHANGED <<cache, data, params, netCalls, failed>>
    ELSE restbase_get(Put(r.params, "endpoint", r.path), endpoint, show)

\* WPToolsRESTBase.get_restbase(endpoint, show, proxy, timeout)
get_restbase(endpoint, show) ==
    /\ pc = "ready"
    /\ nops < MaxOps
    /\ nops' = nops + 1
    /\ restbase_resolved(restbase_resolve(endpoint, params), endpoint, show)
    /\ UNCHANGED <<pc, flags>>

\* WPTools._get(action, show, proxy, timeout) called for any action
Get(action, show) ==
    /\ pc = "ready"
    /\ nops < MaxOps
    /\ nops' = nops + 1
    /\ \E out \in outcomes_of(cache, flags, action) :
          Fetched(_get(cache, data, params, flags, action, show, out),
                  "_get", action, <<>>, show, out)
    /\ UNCHANGED <<pc, params, flags>>

Next ==
    \/ \E e \in EndpointArgs : Construct(e)
    \/ \E e \in EndpointArgs, show \in BOOLEAN : get_restbase(e, show)
    \/ \E a \in Actions, show \in BOOLEAN : Get(a, show)

Spec == Init /\ [][Next]_vars

(***************************************************************************)
(* Endpoint resolution on its own: _parse_endpoint applied to an endpoint  *)
(* and a title drawn from bounded sets.                                    *)
(***************************************************************************)
SubResources == {Str_summary, Str_html}
Titles       == {Str_X, Str_Y}
Separators   == {Sl, Sl \o Sl}

\* a sub-resource without a title: 'summary', '/page/summary', 'page//summary/', ...
Spellings(sub) ==
    { lead \o pre \o sub \o trail :
        lead \in {<<>>} \cup Separators,
        pre \in {<<>>} \cup {Str_page \o sep : sep \in Separators},
        trail \in {<<>>} \cup Separators }

\* a full path: 'page/summary/X', '/page/summary/X'
FullPaths(sub, title) ==
    { lead \o Str_page \o Sl \o sub \o Sl \o title : lead \in {<<>>, Sl} }

ResolveInputs ==
    { <<>>, << <<>> >>, << Sl >>, << Str_page >>, << RootPath >> }
    \cup { <<e>> : e \in UNION { Spellings(sub) : sub \in SubResources } }
    \cup { <<e>> : e \in UNION { FullPaths(sub, t) : sub \in SubResources, t \in Titles } }

ResolveInit ==
    /\ pc = "resolve"
    /\ cache = <<>>
    /\ data = <<>>
    /\ params \in {[lang |-> "en", variant |-> None, wiki |-> None]}
                  \cup {[lang |-> "en", variant |-> None, wiki |-> None, title |-> t] :
                           t \in Titles}
    /\ flags = [silent |-> FALSE, skip |-> {}, verbose |-> FALSE]
    /\ netCalls = 0
    /\ nops = 0
    /\ failed = {}
    /\ last = Raised("none", <<>>, FALSE, "none", <<>>)

Resolved(r, endpoint) ==
    /\ pc' = "resolved"
    /\ params' = r.params
    /\ last' = Raised("_parse_endpoint", endpoint, FALSE,
                      IF r.err = "none" THEN "ok" ELSE r.err,
                      IF r.err = "none" THEN <<r.path>> ELSE <<>>)

\* self._parse_endpoint(endpoint, self.params.get('title'))
Resolve(endpoint) ==
    /\ pc = "resolve"
    /\ Resolved(_parse_endpoint(endpoint, params_get_title(params), params), endpoint)
    /\ UNCHANGED <<cache, data, flags, netCalls, nops, failed>>

ResolveNext == \E e \in ResolveInputs : Resolve(e)

SpecResolve == ResolveInit /\ [][ResolveNext]_vars

(***************************************************************************)
(* The shared record on its own: _unpack_images and the fetch applied to   *)
(* prior contents of data and to responses drawn from bounded sets.        *)
(***************************************************************************)
MaxCalls == 2    \* calls made on one shared record

\* an optional entry of a dict: {} when the value is absent
Entry(k, opt) == IF opt = <<>> THEN <<>> ELSE [x \in {k} |-> opt[1]]

\* the 'image' shape of /page/mobile-sections-lead, or none
ImageShapes == { <<>>, << [file |-> "lead.jpg"] >> }

\* the 'originalimage' shape of /page/summary: none, with or without 'source'
OriginalShapes ==
    { <<>>, << [source |-> "orig.jpg", width |-> "640"] >>, << [width |-> "640"] >> }

\* the 'thumbnail' shape of /page/summary: none, complete, or an empty dict
ThumbnailShapes == { <<>>, << [source |-> "thumb.jpg", width |-> "240"] >>, << <<>> >> }

\* the responses handed to _unpack_images
ImageResponses ==
    { update(update(Entry("image", i), Entry("originalimage", o)), Entry("thumbnail", t)) :
        i \in ImageShapes, o \in OriginalShapes, t \in ThumbnailShapes }

\* data before the calls: empty, filled by other sources, or holding a record
\* equal to the one a thumbnail yields
PriorData ==
    { <<>>,
      [description |-> "a description", pageid |-> "1", exrest |-> "an extract",
       exhtml |-> "<p>an extract</p>", lead |-> "<p>a lead</p>",
       modified |-> [wikidata |-> "2016-06-06T00:00:00Z"],
       image |-> << [kind |-> "parse-image", url |-> "infobox.jpg"] >>],
      [modified |-> [page |-> "2015-05-05T00:00:00Z", wikidata |-> "2016-06-06T00:00:00Z"],
       image |-> << [kind |-> "restbase-thumb", source |-> "thumb.jpg",
                     width |-> "240", url |-> "thumb.jpg"] >>] }

\* params once __init__ returned: at the root, or at '/page/summary/X'
DataParams ==
    { [lang |-> "en", variant |-> None, wiki |-> None, endpoint |-> RootPath],
      [lang |-> "en", variant |-> None, wiki |-> None, title |-> Str_X,
       endpoint |-> Sl \o Str_page \o Sl \o Str_summary \o Sl \o Str_X] }

\* what the transport may answer: every body with every status and content-type
DataBodies ==
    { Text(""), Text("{trunc"), Text("{error}"), Text("{items}"), Text("{summary}"),
      Text("{lead}"), Bytes("<html>") }

DataOutcomes == Returns(DataBodies, Infos)

DataInit ==
    /\ pc = "ready"
    /\ cache = <<>>
    /\ data \in PriorData
    /\ params \in DataParams
    /\ flags = [silent |-> FALSE, skip |-> {}, verbose |-> FALSE]
    /\ netCalls = 0
    /\ nops = 0
    /\ failed = {}
    /\ last = Raised("none", <<>>, FALSE, "none", <<>>)

\* self._unpack_images(rdata)
Unpack(rdata) ==
    /\ nops < MaxCalls
    /\ nops' = nops + 1
    /\ data' = _unpack_images(data, rdata)
    /\ last' = Raised("_unpack_images", <<>>, FALSE, "ok", <<rdata>>)
    /\ UNCHANGED <<pc, cache, params, flags, netCalls, failed>>

\* self._get('restbase', show, proxy, timeout)
DataFetch(show) ==
    /\ nops < MaxCalls
    /\ nops' = nops + 1
    /\ \E out \in IF reaches_transport(cache, flags, "restbase")
                  THEN DataOutcomes ELSE {TransportRaises} :
          Fetched(_get(cache, data, params, flags, "restbase", show, out),
                  "_get", "restbase", <<>>, show, out)
    /\ UNCHANGED <<pc, params, flags>>

DataNext ==
    \/ \E rdata \in ImageResponses : Unpack(rdata)
    \/ \E show \in {FALSE} : DataFetch(show)

SpecData == DataInit /\ [][DataNext]_vars

(***************************************************************************)
(* The claims.                                                             *)
(***************************************************************************)
\* a step in which __init__ ran or an operation was called on the instance
Called == pc' # pc \/ nops' = nops + 1

\* a step in which an operation called _get for some action
CallsGet == nops' = nops + 1 /\ last'.action \in Actions

\* a step that calls _get for the action the previous operation called it for,
\* when that previous call found no cache entry and the action is not skipped
SecondFetch ==
    /\ CallsGet
    /\ last.action \in Actions \ {"imageinfo"}
    /\ last'.action = last.action
    /\ last.action \notin flags.skip
    /\ last.result # "cached"

\* C1 as stated: for every action but 'imageinfo' that is not skipped, two
\* successive fetches invoke the transport exactly once in total, the second
\* being a cache hit.
C1_TwoFetchesOneCall ==
    [][SecondFetch => (last.net + last'.net = 1 /\ last'.result = "cached")]_vars

\* C1 amended: two successive fetches invoke the transport exactly once in
\* total and the second is a cache hit, unless the first ended in the root
\* listing of '/page/', which discards its cache entry: then the second fetch
\* invokes the transport again.
C1_TwoFetchesOneCallButRoot ==
    [][SecondFetch =>
         IF "root" \in last.notes
         THEN last.net = 1 /\ last'.net = 1 /\ netCalls' = netCalls + 1
         ELSE /\ last.net + last'.net = 1
              /\ last'.result = "cached"
              /\ netCalls' = netCalls]_vars

C1_Witness ==
    /\ nops = 2
    /\ last.action = "restbase"
    /\ last.result = "cached"
    /\ netCalls = 1
    /\ "restbase" \notin flags.skip

\* C2: a call of _get for an action of the skip-list never invokes the
\* transport, whatever the cache holds and for 'imageinfo' too; the entry of a
\* skipped action never receives a query, a response or an info.
C2_SkipNeverFetches ==
    /\ last.action \in flags.skip =>
          last.net = 0 /\ last.out = <<>> /\ last.result \in {"skipped", "cached"}
    /\ \A a \in flags.skip : a \in DOMAIN cache => DOMAIN cache[a] = {}

C2_Witness ==
    /\ nops = 2
    /\ last.action = "imageinfo"
    /\ "imageinfo" \in flags.skip
    /\ last.result = "skipped"
    /\ netCalls = 0

\* C3 as stated: a call of _get for a skipped action that has no cache entry
\* leaves the key set of cache as it was.
C3_SkipCreatesNoEntry ==
    [][(CallsGet /\ last'.action \in flags.skip /\ last'.action \notin DOMAIN cache)
          => DOMAIN cache' = DOMAIN cache]_vars

\* C4: from one operation to the next, the key sets of cache and of data only grow.
C4_KeysOnlyGrow ==
    [][DOMAIN cache \subseteq DOMAIN cache' /\ DOMAIN data \subseteq DOMAIN data']_vars

\* the root listing discarded the 'restbase' entry inside the call, and the key
\* an earlier operation added is still there
C4_Witness ==
    /\ nops = 2
    /\ "root" \in last.notes
    /\ "restbase" \notin DOMAIN cache
    /\ "parse" \in DOMAIN cache

\* a call of _get for 'imageinfo' when it is not skipped
RefetchCall == CallsGet /\ last'.action = "imageinfo" /\ "imageinfo" \notin flags.skip

\* the entry of an action before a call, {} when there is none
EntryOf(c, action) == IF action \in DOMAIN c THEN c[action] ELSE <<>>

\* C5 as stated: every _get of 'imageinfo' (not skipped) invokes the transport
\* exactly once, and afterwards the entry's query, response and info are those
\* of that invocation.
C5_RefetchStoresLatest ==
    (last.action = "imageinfo" /\ "imageinfo" \notin flags.skip) =>
        /\ last.net = 1
        /\ DOMAIN cache["imageinfo"] = {"query", "response", "info"}
        /\ cache["imageinfo"].query = restbase(params.lang, params.endpoint)
        /\ cache["imageinfo"].response = last.out[1].body
        /\ cache["imageinfo"].info = last.out[1].info
        /\ ~last.out[1].raises

\* C5 amended: every _get of 'imageinfo' (not skipped) invokes the transport
\* exactly once, cached or not; afterwards the entry's query is that of this
\* invocation; its response and info are those of this invocation when the
\* transport returned, and are left as they were (absent, or those of an earlier
\* invocation) when the transport raised.
C5_RefetchStoresLatestIfReturned ==
    [][RefetchCall =>
         /\ last'.net = 1 /\ netCalls' = netCalls + 1
         /\ cache'["imageinfo"].query = restbase(params'.lang, params'.endpoint)
         /\ IF last'.out[1].raises
            THEN cache'["imageinfo"] =
                    Put(EntryOf(cache, "imageinfo"), "query",
                        restbase(params'.lang, params'.endpoint))
            ELSE /\ cache'["imageinfo"].response = last'.out[1].body
                 /\ cache'["imageinfo"].info = last'.out[1].info]_vars

\* the second of two fetches of 'imageinfo', both answered by the transport
C5_Witness ==
    /\ nops = 2
    /\ netCalls = 2
    /\ last.action = "imageinfo"
    /\ DOMAIN cache = {"imageinfo"}
    /\ ~last.out[1].raises
    /\ cache["imageinfo"].response = last.out[1].body

\* C6: once a _get of an action other than 'imageinfo' has raised, every later
\* _get of that action is a cache hit that does not invoke the transport: the
\* entry of a failed action stays in the cache.
C6_FailedFetchIsNeverRetried ==
    [][/\ failed' \ {"imageinfo"} \subseteq DOMAIN cache'
       /\ (CallsGet /\ last'.action \in failed /\ last'.action # "imageinfo") =>
             (last'.result = "cached" /\ last'.net = 0 /\ netCalls' = netCalls
              /\ cache' = cache /\ data' = data)]_vars

\* a fetch of 'restbase' raised, and the next fetch of it was a cache hit
C6_Witness ==
    /\ nops = 2
    /\ netCalls = 1
    /\ last.action = "restbase"
    /\ "restbase" \in failed
    /\ last.result = "cached"

\* C7: when the transport raises in _get, the error propagates, the transport
\* was invoked once by that call, the normalizer and the dump did not run, and
\* data is as it was before the call.
C7_TransportErrorPropagates ==
    [][(CallsGet /\ last'.out # <<>> /\ last'.out[1].raises) =>
          /\ last'.result = "TransportError"
          /\ last'.net = 1 /\ netCalls' = netCalls + 1
          /\ ~last'.norm /\ ~last'.dump /\ "dump" \notin last'.notes
          /\ data' = data]_vars

\* the transport raised while data held the fields of an earlier fetch
C7_Witness ==
    /\ last.result = "TransportError"
    /\ last.show
    /\ "description" \in DOMAIN data

\* a fetch of 'restbase' whose transport returned a non-empty body that is not JSON
MalformedFetch ==
    /\ CallsGet
    /\ last'.action = "restbase"
    /\ last'.out # <<>>
    /\ ~last'.out[1].raises
    /\ last'.out[1].body.text # ""
    /\ ~json_loads(last'.out[1].body).ok

\* the validator on every cached action whose body is non-empty and not JSON
MalformedBodiesRaise ==
    \A a \in DOMAIN cache :
        ({"query", "response"} \subseteq DOMAIN cache[a]
            /\ cache[a].response.text # "" /\ ~json_loads(cache[a].response).ok)
        => _load_response(cache, params, a)
              = Failure("ValueError", <<strip_format(cache[a].query)>>)

\* C8 as stated: a non-empty body that is not JSON makes the fetch fail with
\* ValueError carrying the query and leaves data as it was, for every
\* content-type and status.
C8_MalformedAlwaysRaises ==
    [][MalformedFetch =>
          /\ last'.result = "ValueError"
          /\ last'.arg = <<strip_format(cache'["restbase"].query)>>
          /\ data' = data]_vars

\* C8 amended: _load_response raises ValueError carrying the query for every
\* action whose cached body is non-empty and not JSON; a RESTBase fetch of such
\* a body fails with that error and leaves data as it was, for every status,
\* when the content-type does not start with 'text/html'; when it does, the
\* fetch raises nothing and stores the body under data['html'].
C8_MalformedRaisesUnlessHtml ==
    [][/\ MalformedBodiesRaise'
       /\ MalformedFetch =>
            IF startswith_text_html(last'.out[1].info.content)
            THEN /\ last'.result = "ok"
                 /\ data' = Put(data, "html", decode(last'.out[1].body))
            ELSE /\ last'.result = "ValueError"
                 /\ last'.arg = <<strip_format(cache'["restbase"].query)>>
                 /\ data' = data]_vars

\* a truncated body with status 404 and a JSON content-type raised ValueError
C8_Witness ==
    /\ last.action = "restbase"
    /\ last.result = "ValueError"
    /\ last.out[1].info.status = 404
    /\ last.out[1].body.text = "{trunc"

\* the path '/page/<sub>/<title>'
PagePath(sub, title) == Sl \o Str_page \o Sl \o sub \o Sl \o title

\* C9: _parse_endpoint returns '/page/' when no endpoint is supplied; for a
\* sub-resource s and a known title X (each one path segment) it returns
\* '/page/s/X' for s spelled with or without the 'page' prefix and with or
\* without leading, trailing or doubled separators, and for 'page/s/X' itself.
C9_ResolvesToPagePath ==
    [][(pc = "resolve" /\ pc' = "resolved") =>
          /\ ~Truthy(last'.endpoint) =>
                (last'.result = "ok" /\ last'.ret = <<RootPath>>)
          /\ \A sub \in SubResources, t \in Titles :
                (/\ Truthy(last'.endpoint)
                 /\ params_get_title(params) = <<t>>
                 /\ last'.endpoint[1] \in Spellings(sub) \cup FullPaths(sub, t))
                => (/\ last'.result = "ok"
                    /\ last'.ret = <<PagePath(sub, t)>>
                    /\ params' = params)]_vars

\* '//page//summary/' resolved with the title X
C9_Witness ==
    /\ pc = "resolved"
    /\ last.endpoint = << Sl \o Sl \o Str_page \o Sl \o Sl \o Str_summary \o Sl >>
    /\ params_get_title(params) = <<Str_X>>
    /\ last.ret = << PagePath(Str_summary, Str_X) >>

\* an endpoint of three segments whose third differs from the known title
ConflictingEndpoint(endpoint, p) ==
    /\ Truthy(endpoint)
    /\ parse_segments(endpoint) # <<>>
    /\ Len(parse_rooted(parse_segments(endpoint))) = 3
    /\ Truthy(params_get_title(p))
    /\ parse_rooted(parse_segments(endpoint))[3] # p.title

UntitledEndpoint(endpoint, p) ==
    /\ Truthy(endpoint)
    /\ parse_segments(endpoint) # <<>>
    /\ Len(parse_rooted(parse_segments(endpoint))) = 2
    /\ ~Truthy(params_get_title(p))

\* C11: a non-empty endpoint of two segments supplied while no title is known
\* fails with "need a title." and leaves params, cache and data as they were,
\* with no network call, in __init__ and in get_restbase.
C11_MissingTitleRaises ==
    [][(Called /\ last'.op \in {"__init__", "get_restbase"}
           /\ UntitledEndpoint(last'.endpoint, params)) =>
          /\ last'.result = "need a title."
          /\ last'.net = 0 /\ netCalls' = netCalls
          /\ params' = params /\ cache' = cache /\ data' = data]_vars

\* get_restbase('summary') on an instance built at the root, after a fetch
C11_Witness ==
    /\ last.op = "get_restbase"
    /\ last.result = "need a title."
    /\ last.endpoint = << Str_summary >>
    /\ params.endpoint = RootPath
    /\ "title" \notin DOMAIN params
    /\ DOMAIN cache # {}

\* str.startswith(prefix) on a path
BeginsWith(s, prefix) == Len(s) >= Len(prefix) /\ SubSeq(s, 1, Len(prefix)) = prefix

\* C12 as stated: every path _parse_endpoint returns begins with '/page/', and
\* so does params.endpoint in every state of a constructed instance.
C12_PathBeginsWithRoot ==
    /\ last.ret # <<>> => BeginsWith(last.ret[1], RootPath)
    /\ pc = "ready" => BeginsWith(params.endpoint, RootPath)

\* a get_restbase call that supplies an endpoint which resolves without error
ResolvingCall ==
    /\ nops' = nops + 1
    /\ last'.op = "get_restbase"
    /\ Truthy(last'.endpoint)
    /\ _parse_endpoint(last'.endpoint, params_get_title(params), params).err = "none"

\* C13: a get_restbase call whose endpoint resolves stores the resolved path in
\* params.endpoint; every cache entry there was before the call is still there
\* unaltered, and when 'restbase' has an entry (fetched under an earlier
\* endpoint) the call is a cache hit that leaves cache and data as they were.
C13_NewEndpointKeepsCache ==
    [][ResolvingCall =>
          /\ params'.endpoint =
                _parse_endpoint(last'.endpoint, params_get_title(params), params).path
          /\ \A a \in DOMAIN cache \ {"restbase"} :
                a \in DOMAIN cache' /\ cache'[a] = cache[a]
          /\ "restbase" \in DOMAIN cache =>
                /\ cache' = cache /\ data' = data
                /\ last'.result = "cached" /\ netCalls' = netCalls]_vars

\* the entry fetched for '/page/summary/X' is kept when the endpoint becomes '/page'
C13_Witness ==
    /\ last.op = "get_restbase"
    /\ last.result = "cached"
    /\ params.endpoint = Sl \o Str_page
    /\ {"query", "response", "info"} \subseteq DOMAIN cache["restbase"]
    /\ cache["restbase"].query.path = PagePath(Str_summary, Str_X)
    /\ "description" \in DOMAIN data

\* data['image'], the empty list when there is none
ImageList(d) == IF "image" \in DOMAIN d THEN d.image ELSE <<>>

\* the shapes of a response that are present and non-empty, in the order
\* _unpack_images treats them
ShapesPresent(rdata) ==
    SelectSeq(<<"image", "originalimage", "thumbnail">>, LAMBDA k : truthy_at(rdata, k))

\* a step that ran _unpack_images on a response
Unpacked == nops' = nops + 1 /\ last'.op = "_unpack_images"

\* C14: data.image is append-only: after every call the previous list is an
\* unchanged prefix of the new list, and an unpacking appends one record for
\* every shape present even when an equal record is already in the list.
C14_ImagesAppendOnly ==
    [][/\ "image" \in DOMAIN data => "image" \in DOMAIN data'
       /\ Len(ImageList(data')) >= Len(ImageList(data))
       /\ SubSeq(ImageList(data'), 1, Len(ImageList(data))) = ImageList(data)
       /\ Unpacked =>
             Len(ImageList(data')) =
                Len(ImageList(data)) + Len(ShapesPresent(last'.ret[1]))]_vars

\* two equal thumbnail records stand side by side after the prior record
C14_Witness ==
    /\ nops = 2
    /\ Len(ImageList(data)) = 3
    /\ data.image[1].kind = "parse-image"
    /\ data.image[2] = data.image[3]
    /\ data.image[3].kind = "restbase-thumb"

\* the kind _unpack_images tags a shape with
KindOf(shape) ==
    CASE shape = "image" -> "restbase-image"
      [] shape = "originalimage" -> "restbase-original"
      [] shape = "thumbnail" -> "restbase-thumb"

\* the records of list from position old + 1 on carry the kinds of the shapes
\* sp, in order, each with the fields of its shape
AppendedFor(list, old, sp, rdata) ==
    /\ Len(list) = old + Len(sp)
    /\ \A i \in 1..Len(sp) :
          /\ list[old + i].kind = KindOf(sp[i])
          /\ \A f \in DOMAIN rdata[sp[i]] : list[old + i][f] = rdata[sp[i]][f]
    /\ \A i, j \in 1..Len(sp) : i # j => list[old + i].kind # list[old + j].kind

RestbaseKinds == {"restbase-image", "restbase-original", "restbase-thumb"}

\* C16 as stated: every record an unpacking appends to data.image, whatever its
\* shape, carries a kind of the fixed tag set and a 'url' field.
C16_RecordsCarryKindAndUrl ==
    [][Unpacked =>
          \A i \in (Len(ImageList(data)) + 1)..Len(ImageList(data')) :
              /\ data'.image[i].kind \in RestbaseKinds
              /\ "url" \in DOMAIN data'.image[i]]_vars

\* a fetch whose normalization reached the field extraction: _handle_response
\* returned the validated response
Extracted ==
    /\ nops' = nops + 1
    /\ last'.action = "restbase"
    /\ last'.norm
    /\ _handle_response(cache', data, params).res # <<>>

\* the validated response of that fetch
ExtractedResponse == _handle_response(cache', data, params).res[1]

\* data['modified'], the empty map when there is none
ModifiedOf(d) == IF "modified" \in DOMAIN d THEN d.modified ELSE <<>>

\* C17: when the response that is normalized reports a last-modified timestamp,
\* data.modified['page'] is that timestamp afterwards and every other key of
\* data.modified is still there with its value; when it reports none (or no
\* response is normalized), data.modified is as it was.
C17_ModifiedMerges ==
    [][IF Extracted /\ truthy(get(ExtractedResponse, "lastmodified"))
       THEN /\ "modified" \in DOMAIN data'
            /\ data'.modified.page = ExtractedResponse.lastmodified
            /\ DOMAIN data'.modified = DOMAIN ModifiedOf(data) \cup {"page"}
            /\ \A k \in DOMAIN ModifiedOf(data) \ {"page"} :
                  data'.modified[k] = data.modified[k]
       ELSE /\ "modified" \in DOMAIN data' <=> "modified" \in DOMAIN data
            /\ ModifiedOf(data') = ModifiedOf(data)]_vars

\* the page timestamp of the response beside the timestamp of another source
C17_Witness ==
    /\ last.action = "restbase"
    /\ last.result = "ok"
    /\ last.out[1].body.text = "{lead}"
    /\ "modified" \in DOMAIN data
    /\ DOMAIN data.modified = {"page", "wikidata"}
    /\ data.modified.page = "2017-02-02T00:00:00Z"
    /\ data.modified.wikidata = "2016-06-06T00:00:00Z"

\* the text fields the extraction assigns from the response
TextFields == {"description", "pageid", "exrest", "exhtml", "lead"}

\* C18 as stated: normalization removes no key of data and never replaces a
\* field that was not null by null when the response lacks it.  (title,
\* wikibase and url are only ever assigned non-null values; the text fields are
\* the ones a response can lack.)
C18_ExtractionIsAdditive ==
    [][Extracted =>
          /\ DOMAIN data \subseteq DOMAIN data'
          /\ \A k \in TextFields \cap DOMAIN data :
                data[k] # None => data'[k] # None]_vars

\* a fetch of 'restbase' whose transport returned with status 404
NotFoundFetch ==
    /\ nops' = nops + 1
    /\ last'.action = "restbase"
    /\ last'.out # <<>>
    /\ ~last'.out[1].raises
    /\ last'.out[1].info.status = 404

\* C19 as stated: a RESTBase fetch whose transport info reports 404 fails with
\* LookupError carrying the cached query and leaves data as it was, for every
\* content-type, body and endpoint.
C19_NotFoundAlwaysRaises ==
    [][NotFoundFetch =>
          /\ last'.result = "LookupError"
          /\ last'.arg = <<cache'["restbase"].query>>
          /\ data' = data]_vars

\* C19 amended: a RESTBase fetch whose transport info reports 404 fails with
\* LookupError carrying the cached query and leaves data as it was, for every
\* endpoint, when the content-type does not start with 'text/html' and the body
\* is non-empty and parses as JSON; an empty body fails as an empty response
\* and a body that is not JSON as a malformed one, data unchanged; with a
\* content-type that starts with 'text/html' the fetch raises nothing and
\* stores the body under data['html'].
C19_NotFoundRaisesOnceLoaded ==
    [][NotFoundFetch =>
          IF startswith_text_html(last'.out[1].info.content)
          THEN /\ last'.result = "ok"
               /\ data' = Put(data, "html", decode(last'.out[1].body))
          ELSE /\ data' = data
               /\ last'.result =
                     IF last'.out[1].body.text = "" THEN "StandardError"
                     ELSE IF ~json_loads(last'.out[1].body).ok THEN "ValueError"
                     ELSE "LookupError"
               /\ last'.result = "LookupError" =>
                     last'.arg = <<cache'["restbase"].query>>]_vars

\* the listing of the root answered with status 404: LookupError, entry kept
C19_Witness ==
    /\ last.action = "restbase"
    /\ last.result = "LookupError"
    /\ last.out[1].info.status = 404
    /\ last.out[1].body.text = "{items}"
    /\ params.endpoint = RootPath
    /\ last.arg = <<cache["restbase"].query>>

\* C20 as stated: when flags.silent is set, no operation writes to the
\* diagnostic stream: no cache-hit notice, no skip notice, no root listing and
\* no dump.
C20_SilentWritesNothing ==
    flags.silent => last.notes = {}

\* the three fields of a cache entry
EntryFields == {"query", "response", "info"}

\* C21 as stated: between operations every entry of cache holds query,
\* response and info, and the three accessors return without error for every
\* action of the cache.
C21_EntriesAreComplete ==
    \A a \in DOMAIN cache :
        /\ DOMAIN cache[a] = EntryFields
        /\ query(cache, a).err = "none"
        /\ info(cache, a).err = "none"
        /\ response(cache, a).err = "none"

\* C21 amended: between operations every entry of cache holds all three
\* fields (the transport returned), or query alone (the transport raised), or
\* no field (the action is skipped); for an entry holding all three, query and
\* info return without error, and response returns without error exactly when
\* the stored body parses as JSON.
C21_EntriesCompleteOnceAnswered ==
    \A a \in DOMAIN cache :
        /\ DOMAIN cache[a] \in {{}, {"query"}, EntryFields}
        /\ DOMAIN cache[a] = {} => a \in flags.skip
        /\ DOMAIN cache[a] = {"query"} => a \in failed
        /\ DOMAIN cache[a] = EntryFields =>
              /\ query(cache, a) = Accessed("none", strip_format(cache[a].query))
              /\ info(cache, a) = Accessed("none", cache[a].info)
              /\ response(cache, a).err = "none" <=> json_loads(cache[a].response).ok
        /\ DOMAIN cache[a] # EntryFields =>
              info(cache, a).err = "KeyError" /\ response(cache, a).err = "KeyError"

\* one complete entry whose accessors all return, beside one left with its
\* query alone by a transport error
C21_Witness ==
    /\ DOMAIN cache = {"restbase", "parse"}
    /\ DOMAIN cache["restbase"] = EntryFields
    /\ response(cache, "restbase").err = "none"
    /\ DOMAIN cache["parse"] = {"query"}
    /\ query(cache, "parse").err = "none"

\* the keys the RESTBase source may give data
DataVocabulary ==
    {"description", "pageid", "exrest", "exhtml", "html", "lead", "modified",
     "title", "wikibase", "wikidata_url", "url", "url_raw", "image"}

\* C22: every key of data belongs to the fixed vocabulary: a field of a
\* response outside the extracted set never becomes a key of data.
C22_DataKeysAreKnown == DOMAIN data \subseteq DataVocabulary

\* a listing answered at a page endpoint was normalized: its 'items' field is
\* not in data
C22_Witness ==
    /\ last.action = "restbase"
    /\ last.result = "ok"
    /\ last.out[1].body.text = "{items}"
    /\ "items" \in DOMAIN json_loads(last.out[1].body).val
    /\ "url" \in DOMAIN data
    /\ "items" \notin DOMAIN data

\* a fetch of 'restbase' whose transport returned an HTML content-type
HtmlFetch ==
    /\ nops' = nops + 1
    /\ last'.action = "restbase"
    /\ last'.out # <<>>
    /\ ~last'.out[1].raises
    /\ startswith_text_html(last'.out[1].info.content)

\* C23: when the content-type of a RESTBase fetch starts with 'text/html', the
\* fetch raises nothing, whatever the body and the status; data['html'] is the
\* body decoded to text and no other field of data changes; the cache entry
\* stays, with the raw body as its response.
C23_HtmlIsStoredRaw ==
    [][HtmlFetch =>
          /\ last'.result = "ok"
          /\ "html" \in DOMAIN data'
          /\ data'.html = Text(last'.out[1].body.text)
          /\ DOMAIN data' = DOMAIN data \cup {"html"}
          /\ \A k \in DOMAIN data \ {"html"} : data'[k] = data[k]
          /\ "restbase" \in DOMAIN cache'
          /\ DOMAIN cache'["restbase"] = EntryFields
          /\ cache'["restbase"].response = last'.out[1].body
          /\ cache'["restbase"].info = last'.out[1].info]_vars

\* a bytes body answered 404 with an HTML content-type at the root: stored as
\* text beside the fields data already had
C23_Witness ==
    /\ last.action = "restbase"
    /\ last.result = "ok"
    /\ last.out[1].body = Bytes("<html>")
    /\ last.out[1].info.status = 404
    /\ params.endpoint = RootPath
    /\ {"html", "description"} \subseteq DOMAIN data
    /\ data.html = Text("<html>")
    /\ data.description = "a description"
    /\ cache["restbase"].response = Bytes("<html>")

\* a fetch of 'restbase' at the root '/page/' whose transport returned a body
\* that is not HTML and parses as JSON
RootJsonFetch ==
    /\ nops' = nops + 1
    /\ last'.action = "restbase"
    /\ params'.endpoint = RootPath
    /\ last'.out # <<>>
    /\ ~last'.out[1].raises
    /\ ~startswith_text_html(last'.out[1].info.content)
    /\ json_loads(last'.out[1].body).ok

\* a fetch of 'restbase', not skipped, right after a root listing
FetchAfterListing ==
    /\ CallsGet
    /\ last'.action = "restbase"
    /\ "root" \in last.notes
    /\ "restbase" \notin flags.skip

\* C24 as stated: at the root '/page/', a fetched body that is not HTML and
\* parses as JSON ends the fetch with no 'restbase' entry and data unchanged,
\* and the next fetch of 'restbase' invokes the transport again.
C24_RootListingDiscards ==
    [][/\ RootJsonFetch =>
             ("restbase" \notin DOMAIN cache' /\ data' = data)
       /\ FetchAfterListing => last'.net = 1]_vars

\* C24 amended: the same, when moreover the body reports no error and the
\* status is not 404; a body reporting an error, or a 404, raises LookupError,
\* keeps the entry and leaves data unchanged.
C24_RootListingDiscardsUnlessError ==
    [][/\ RootJsonFetch =>
             IF truthy(get(json_loads(last'.out[1].body).val, "error"))
                    \/ last'.out[1].info.status = 404
             THEN /\ last'.result = "LookupError"
                  /\ "restbase" \in DOMAIN cache'
                  /\ data' = data
             ELSE /\ last'.result = "ok"
                  /\ "restbase" \notin DOMAIN cache'
                  /\ DOMAIN cache' = DOMAIN cache \ {"restbase"}
                  /\ data' = data
       /\ FetchAfterListing => (last'.net = 1 /\ netCalls' = netCalls + 1)]_vars

\* two root listings in a row, each with its own network call
C24_Witness ==
    /\ nops = 2
    /\ netCalls = 2
    /\ params.endpoint = RootPath
    /\ "root" \in last.notes
    /\ last.out[1].body.text = "{items}"
    /\ "restbase" \notin DOMAIN cache
    /\ data = <<>>

\* a call of _get that invoked the transport
NetworkCall == CallsGet /\ last'.net = 1

\* the entry as the call leaves it when the transport returned
AnsweredEntry(q, out) == [query |-> q, response |-> out.body, info |-> out.info]

\* C25: in a _get that reaches the network the query is stored before the
\* transport is invoked (it is there when the transport raises), response and
\* info are stored before the normalizer runs (they are there when it raises),
\* and the dump comes only after the normalizer returned and only if show was
\* requested: when the normalizer raises there is no dump and the entry holds
\* query, response and info.
C25_StepsInOrder ==
    [][NetworkCall =>
          /\ last'.out[1].raises =>
                /\ ~last'.norm /\ ~last'.dump /\ "dump" \notin last'.notes
                /\ cache'[last'.action] =
                      Put(EntryOf(cache, last'.action), "query",
                          restbase(params'.lang, params'.endpoint))
          /\ ~last'.out[1].raises =>
                /\ last'.norm
                /\ "root" \notin last'.notes =>
                      cache'[last'.action] =
                         AnsweredEntry(restbase(params'.lang, params'.endpoint),
                                       last'.out[1])
          /\ (last'.dump \/ "dump" \in last'.notes) =>
                (last'.show /\ last'.norm /\ last'.result = "ok")
          /\ (last'.show /\ last'.norm /\ last'.result = "ok") => last'.dump
          /\ (last'.norm /\ last'.result # "ok") =>
                /\ ~last'.dump /\ "dump" \notin last'.notes
                /\ DOMAIN cache'[last'.action] = EntryFields]_vars

\* the normalizer raised in a call that asked for the dump, with data to show
C25_Witness ==
    /\ last.net = 1
    /\ last.norm
    /\ last.result \notin Returned
    /\ last.show
    /\ ~flags.silent
    /\ DOMAIN data # {}
    /\ DOMAIN cache[last.action] = EntryFields
    /\ "dump" \notin last.notes

\* an endpoint that resolves to three segments
ThreeSegments(endpoint) ==
    /\ Truthy(endpoint)
    /\ parse_segments(endpoint) # <<>>
    /\ Len(parse_rooted(parse_segments(endpoint))) = 3

\* the third segment of such an endpoint
ThirdSegment(endpoint) == parse_rooted(parse_segments(endpoint))[3]

\* a step in which __init__, get_restbase or _parse_endpoint was called
Resolving ==
    /\ Called
    /\ last'.op \in {"__init__", "get_restbase", "_parse_endpoint"}

\* C26: when the endpoint resolves to three segments and no title is known,
\* resolution succeeds and params.title becomes the third segment; when the
\* known title equals the third segment, resolution succeeds and params.title
\* stays; in every other case params.title stays as it was, known or not.
C26_TitleAdoption ==
    [][IF Resolving /\ ThreeSegments(last'.endpoint) /\ ~Truthy(params_get_title(params))
       THEN /\ last'.result \notin {"need a title.", "titles conflict.", "IndexError"}
            /\ params_get_title(params') = <<ThirdSegment(last'.endpoint)>>
       ELSE /\ params_get_title(params') = params_get_title(params)
            /\ (Resolving /\ ThreeSegments(last'.endpoint)
                  /\ params_get_title(params) = <<ThirdSegment(last'.endpoint)>>)
               => last'.result \notin {"need a title.", "titles conflict.", "IndexError"}]_vars

\* get_restbase('/page/html/Y') on an instance built at the root: Y is adopted
C26_Witness ==
    /\ nops = 1
    /\ last.op = "get_restbase"
    /\ last.endpoint = << Sl \o Str_page \o Sl \o Str_html \o Sl \o Str_Y >>
    /\ params.title = Str_Y
    /\ params.endpoint = PagePath(Str_html, Str_Y)

\* C27: in every state of a constructed instance, failed calls included, an
\* endpoint of exactly three segments has params.title as its third segment;
\* and params.title, once known, never changes.
C27_EndpointNamesTitle ==
    [][/\ (pc' = "ready" /\ ThreeSegments(params_get_endpoint(params'))) =>
             params_get_title(params') = <<ThirdSegment(params_get_endpoint(params'))>>
       /\ Truthy(params_get_title(params)) =>
             params_get_title(params') = params_get_title(params)]_vars

\* get_restbase('/page/html/Y') failed on an instance whose endpoint names X
C27_Witness ==
    /\ nops = 2
    /\ last.op = "get_restbase"
    /\ last.result = "titles conflict."
    /\ "title" \in DOMAIN params
    /\ params.title = Str_X
    /\ params.endpoint = PagePath(Str_summary, Str_X)

\* a call of _get for an action other than 'imageinfo' that has a cache entry
CacheHitCall ==
    /\ CallsGet
    /\ last'.action # "imageinfo"
    /\ last'.action \in DOMAIN cache

\* C28: a _get that hits the cache changes nothing: cache, data, params and
\* flags are as they were, neither the transport nor the normalizer is
\* invoked, and there is no dump even when show is requested.
C28_CacheHitIsNoOp ==
    [][CacheHitCall =>
          /\ last'.result = "cached"
          /\ cache' = cache /\ data' = data /\ flags' = flags
          /\ last'.op = "_get" => params' = params
          /\ last'.net = 0 /\ netCalls' = netCalls
          /\ ~last'.norm /\ ~last'.dump /\ "dump" \notin last'.notes]_vars

\* a cache hit with show requested, not silent and data to show
C28_Witness ==
    /\ last.op = "_get"
    /\ last.result = "cached"
    /\ last.show
    /\ ~flags.silent
    /\ "description" \in DOMAIN data
    /\ last.notes = {"cache"}

\* 'restbase' has an entry and the endpoint is not the root '/page/'
FetchedOffRoot ==
    /\ pc = "ready"
    /\ "restbase" \in DOMAIN cache
    /\ params.endpoint # RootPath

\* C29: once 'restbase' has its entry at an endpoint other than '/page/', this
\* stays so for the rest of the instance's life, and no later get_restbase
\* invokes the transport, whatever endpoint it supplies: it changes at most
\* params, never the entry.
C29_NoRefetchOffRoot ==
    [][FetchedOffRoot =>
          /\ "restbase" \in DOMAIN cache'
          /\ params'.endpoint # RootPath
          /\ (nops' = nops + 1 /\ last'.op = "get_restbase") =>
                /\ last'.net = 0 /\ netCalls' = netCalls
                /\ cache' = cache]_vars

\* the entry was fetched at '/page'; the endpoint is now '/page/html/Y'
C29_Witness ==
    /\ nops = 2
    /\ netCalls = 1
    /\ last.op = "get_restbase"
    /\ last.result = "cached"
    /\ params.endpoint = PagePath(Str_html, Str_Y)
    /\ "query" \in DOMAIN cache["restbase"]
    /\ cache["restbase"].query.path = Sl \o Str_page

\* C30 as stated: resolution is idempotent on canonical paths.  Whenever
\* _parse_endpoint(e, t) returns a path p without raising, the default root
\* '/page/' of a missing endpoint included, _parse_endpoint(p, t) returns p
\* again; and an explicitly supplied '/page/' resolves to the root '/page/',
\* the one value _handle_response treats as the root listing.
C30_ResolutionIsIdempotent ==
    [][(pc' = "resolved" /\ last'.result = "ok") =>
          /\ _parse_endpoint(<< last'.ret[1] >>, params_get_title(params), params').err = "none"
          /\ _parse_endpoint(<< last'.ret[1] >>, params_get_title(params), params').path
                = last'.ret[1]
          /\ last'.endpoint = << RootPath >> => last'.ret[1] = RootPath]_vars

=============================================================================
